---- MODULE Spec2Model ----
(***************************************************************************)
(* Model of Storage::details::ReadSetting and ApplyReadFallbackConfig      *)
(* (Telegram/SourceFiles/storage/details/storage_settings_scheme.cpp).     *)
(*                                                                         *)
(* A settings stream is a sequence of tagged records.  ReadSetting decodes *)
(* one record: it reads the record's fields from the stream, checks the    *)
(* stream status and the value filters, and then writes the Migration      *)
(* Context (ReadSettingsContext) or the Global State Sink (the process     *)
(* wide settings).  ApplyReadFallbackConfig runs once after the stream.    *)
(*                                                                         *)
(* A record of the stream is modelled as [blockId, p, avail]: the tag, the *)
(* values of the record's fields, and the number of leading fields the     *)
(* stream really holds (avail smaller than the number of fields read is a  *)
(* truncated stream: QDataStream status ReadPastEnd).                      *)
(***************************************************************************)
EXTENDS Integers, Sequences, FiniteSets, TLC

VARIABLES
    context,    \* ReadSettingsContext: the Migration Context
    sink,       \* the Global State Sink (Global::, cSet..., Core::App())
    version,    \* the format version passed to every ReadSetting call
    pc,         \* "reading" | "failed" | "done": position of the stream reader
    decoded,    \* the records decoded successfully so far, in order (kept by
                \* the specifications that bound the length of the stream)
    last        \* the last ReadSetting call: its record, result and reads

vars == <<context, sink, version, pc, decoded, last>>

-----------------------------------------------------------------------------
(* Bounds of the model *)

\* longest stream of the general specification
MaxRecords == 2
\* largest declared count of a proxy-list record
MaxCount == 3
\* largest magnitude of the stored selected index of a proxy-list record
MaxIndex == 4
\* longest list of a legacy recent-emoji record
MaxEmoji == 2

-----------------------------------------------------------------------------
(* Fixed-width integers *)

\* A 64-bit value as four 16-bit limbs, most significant first.
Int64Max == <<32767, 65535, 65535, 65535>>

\* std::numeric_limits<int32>::max()
Int32Max == 2147483647

\* qint32(x) of a 64-bit value x: keeps the low 32 bits, two's complement.
Int64ToInt32(limbs) ==
    IF limbs[3] >= 32768
        THEN (limbs[3] - 65536) * 65536 + limbs[4]
        ELSE limbs[3] * 65536 + limbs[4]

\* A signed 32-bit value converted to size_t (64 bit, modulo 2^64), kept as
\* wrap * 2^64 + off with |off| < 2^31.
ToSizeT(x) == [wrap |-> IF x < 0 THEN 1 ELSE 0, off |-> x]

\* -list.size(): unary minus on the unsigned size n, modulo 2^64.
NegSizeT(n) == [wrap |-> IF n = 0 THEN 0 ELSE 1, off |-> 0 - n]

\* a < b on two size_t values
SizeTLess(a, b) == a.wrap < b.wrap \/ (a.wrap = b.wrap /\ a.off < b.off)

\* index < -list.size() with index a qint32 and n == list.size()
IndexBelowNegSize(index, n) == SizeTLess(ToSizeT(index), NegSizeT(n))

\* index > list.size() with index a qint32 and n == list.size()
IndexAboveSize(index, n) == SizeTLess(ToSizeT(n), ToSizeT(index))

Abs(x) == IF x < 0 THEN 0 - x ELSE x

-----------------------------------------------------------------------------
(* Proxies *)

ProxyNone == [type |-> "None", host |-> "", port |-> 0, user |-> "", password |-> ""]

\* MTP::ProxyData::operator bool
ProxyValid(proxy) == proxy.type # "None" /\ proxy.host # "" /\ proxy.port # 0

\* static_cast<MTP::ProxyData::Settings>(settings)
SettingsFromInt(n) ==
    CASE n = 0 -> "System"
      [] n = 1 -> "Enabled"
      [] n = 2 -> "Disabled"
      [] OTHER -> "Invalid"

\* static_cast<qint32>(MTP::ProxyData::Settings)
SettingsToInt(s) ==
    CASE s = "System" -> 0
      [] s = "Enabled" -> 1
      [] s = "Disabled" -> 2

-----------------------------------------------------------------------------
(* The fallback production configuration *)

\* Core::App().fallbackProductionConfig() before any settings are read
DefaultConfig ==
    [ dcOptions |-> {},
      chatSizeMax |-> 200,
      savedGifsLimit |-> 200,
      stickersRecentLimit |-> 30,
      stickersFavedLimit |-> 5,
      megagroupSizeMax |-> 10000,
      txtDomainString |-> "" ]

\* Core::App().constructFallbackProductionConfig(serialized): the
\* configuration is built from the blob alone.  A blob is modelled as the
\* sequence <<chatSizeMax, savedGifsLimit, stickersRecentLimit,
\* stickersFavedLimit, megagroupSizeMax, txtDomainString, dcOptions>>; the
\* empty byte array holds no configuration.
ConstructFallbackProductionConfig(blob) ==
    IF blob = <<>> THEN DefaultConfig ELSE
    [ dcOptions |-> blob[7],
      chatSizeMax |-> blob[1],
      savedGifsLimit |-> blob[2],
      stickersRecentLimit |-> blob[3],
      stickersFavedLimit |-> blob[4],
      megagroupSizeMax |-> blob[5],
      txtDomainString |-> blob[6] ]

\* MTP::DcOptions::constructAddOne
ConstructAddOne(options, id, flags, ip, port) ==
    options \cup {[id |-> id, flags |-> flags, ip |-> ip, port |-> port]}

\* MTP::DcOptions::constructFromSerialized: a serialized option list is
\* modelled as the set of options it holds.
ConstructFromSerialized(options, serialized) == options \cup serialized

\* MTP::DcOptions::addFromOther
AddFromOther(options, other) == options \cup other

\* style::kScaleAuto
kScaleAuto == 0

\* Database::Settings().maxDataSize
MaxDataSize == 10485760

-----------------------------------------------------------------------------
(* State *)

\* ReadSettingsContext as constructed
InitContext(hasCustomDayBackground) ==
    [ fallbackConfigLegacyDcOptions |-> {},
      fallbackConfigLegacyChatSizeMax |-> 0,
      fallbackConfigLegacySavedGifsLimit |-> 0,
      fallbackConfigLegacyStickersRecentLimit |-> 0,
      fallbackConfigLegacyStickersFavedLimit |-> 0,
      fallbackConfigLegacyMegagroupSizeMax |-> 0,
      fallbackConfigLegacyTxtDomainString |-> "",
      fallbackConfig |-> <<>>,
      cacheTotalSizeLimit |-> 0,
      cacheTotalTimeLimit |-> 0,
      cacheBigFileTotalSizeLimit |-> 0,
      cacheBigFileTotalTimeLimit |-> 0,
      themeKeyLegacy |-> 0,
      themeKeyDay |-> 0,
      themeKeyNight |-> 0,
      tileDay |-> 0,
      tileNight |-> 1,
      tileRead |-> FALSE,
      legacyHasCustomDayBackground |-> hasCustomDayBackground ]

\* The Global State Sink before the stream is read
InitSink(nightMode) ==
    [ autoStart |-> FALSE,
      workMode |-> "dbiwmWindowAndTray",
      proxiesList |-> <<>>,
      selectedProxy |-> ProxyNone,
      proxySettings |-> "System",
      useProxyForCalls |-> FALSE,
      nightMode |-> nightMode,
      recentEmojiPreload |-> <<>>,
      configScale |-> kScaleAuto,
      sendSubmitWay |-> "Enter",
      callSettings |-> [ outputDeviceID |-> "", outputVolume |-> 100,
                         inputDeviceID |-> "", inputVolume |-> 100,
                         duckingEnabled |-> 1 ],
      fallbackProductionConfig |-> DefaultConfig ]

NoCall == [blockId |-> "", p |-> <<>>, avail |-> 0, ok |-> TRUE, nread |-> 0]

-----------------------------------------------------------------------------
(* ReadSetting: results *)

\* return true, with the state st == [context, sink] after nread reads
Applied(st, nread) ==
    [ok |-> TRUE, context |-> st.context, sink |-> st.sink, nread |-> nread]

\* return false, with the state left as it is after nread reads
Rejected(st, nread) ==
    [ok |-> FALSE, context |-> st.context, sink |-> st.sink, nread |-> nread]

\* CheckStreamStatus(stream) after nread fields were read from a record of
\* which the stream holds avail fields
CheckStreamStatus(avail, nread) == nread <= avail

-----------------------------------------------------------------------------
(* ReadSetting: the legacy data-center options and fallback limits *)

ReadDcOptionOldOld(p, avail, st) ==
    IF ~CheckStreamStatus(avail, 4) THEN Rejected(st, 4)
    ELSE Applied([st EXCEPT !.context.fallbackConfigLegacyDcOptions =
                     ConstructAddOne(@, p.dcId, 0, p.ip, p.port)], 4)

\* dbiDcOptionOld replacing the accumulated options by its own
ReadDcOptionOldOverwriting(p, avail, st) ==
    IF ~CheckStreamStatus(avail, 4) THEN Rejected(st, 4)
    ELSE Applied([st EXCEPT !.context.fallbackConfigLegacyDcOptions =
                     ConstructAddOne({}, p.dcIdWithShift, p.flags, p.ip, p.port)], 4)

ReadDcOptionOld(p, avail, st) ==
    IF ~CheckStreamStatus(avail, 4) THEN Rejected(st, 4)
    ELSE Applied([st EXCEPT !.context.fallbackConfigLegacyDcOptions =
                     ConstructAddOne(@, p.dcIdWithShift, p.flags, p.ip, p.port)], 4)

ReadDcOptionsOld(p, avail, st) ==
    IF ~CheckStreamStatus(avail, 1) THEN Rejected(st, 1)
    ELSE Applied([st EXCEPT !.context.fallbackConfigLegacyDcOptions =
                     ConstructFromSerialized(@, p.serialized)], 1)

ReadChatSizeMaxOld(p, avail, st) ==
    IF ~CheckStreamStatus(avail, 1) THEN Rejected(st, 1)
    ELSE Applied([st EXCEPT !.context.fallbackConfigLegacyChatSizeMax = p.v], 1)

ReadSavedGifsLimitOld(p, avail, st) ==
    IF ~CheckStreamStatus(avail, 1) THEN Rejected(st, 1)
    ELSE Applied([st EXCEPT !.context.fallbackConfigLegacySavedGifsLimit = p.v], 1)

ReadStickersRecentLimitOld(p, avail, st) ==
    IF ~CheckStreamStatus(avail, 1) THEN Rejected(st, 1)
    ELSE Applied([st EXCEPT !.context.fallbackConfigLegacyStickersRecentLimit = p.v], 1)

ReadStickersFavedLimitOld(p, avail, st) ==
    IF ~CheckStreamStatus(avail, 1) THEN Rejected(st, 1)
    ELSE Applied([st EXCEPT !.context.fallbackConfigLegacyStickersFavedLimit = p.v], 1)

ReadMegagroupSizeMaxOld(p, avail, st) ==
    IF ~CheckStreamStatus(avail, 1) THEN Rejected(st, 1)
    ELSE Applied([st EXCEPT !.context.fallbackConfigLegacyMegagroupSizeMax = p.v], 1)

\* read and discarded
ReadTxtDomainStringOldOld(p, avail, st) ==
    IF ~CheckStreamStatus(avail, 1) THEN Rejected(st, 1)
    ELSE Applied(st, 1)

ReadTxtDomainStringOld(p, avail, st) ==
    IF ~CheckStreamStatus(avail, 1) THEN Rejected(st, 1)
    ELSE Applied([st EXCEPT !.context.fallbackConfigLegacyTxtDomainString = p.v], 1)

ReadFallbackProductionConfig(p, avail, st) ==
    IF ~CheckStreamStatus(avail, 1) THEN Rejected(st, 1)
    ELSE Applied([st EXCEPT !.context.fallbackConfig = p.config], 1)

-----------------------------------------------------------------------------
(* ReadSetting: application flags *)

ReadAutoStart(p, avail, st) ==
    IF ~CheckStreamStatus(avail, 1) THEN Rejected(st, 1)
    ELSE Applied([st EXCEPT !.sink.autoStart = (p.v = 1)], 1)

ReadWorkMode(p, avail, st) ==
    IF ~CheckStreamStatus(avail, 1) THEN Rejected(st, 1)
    ELSE LET newMode == CASE p.v = "dbiwmTrayOnly" -> "dbiwmTrayOnly"
                          [] p.v = "dbiwmWindowOnly" -> "dbiwmWindowOnly"
                          [] OTHER -> "dbiwmWindowAndTray"
         IN Applied([st EXCEPT !.sink.workMode = newMode], 1)

\* SetScaleChecked(scale): the scale becomes the value cConfigScale() yields.
\* The scales passed here are the ones the switch of dbiScaleOld produces,
\* which the check of the setter leaves as they are.
SetScaleChecked(st, scale) == [st EXCEPT !.sink.configScale = scale]

\* the switch (v) of dbiScaleOld
ScaleFromOld(v, configScale) ==
    CASE v = 0 -> kScaleAuto
      [] v = 1 -> 100
      [] v = 2 -> 125
      [] v = 3 -> 150
      [] v = 4 -> 200
      [] OTHER -> configScale

ReadScaleOld(p, avail, st) ==
    IF ~CheckStreamStatus(avail, 1) THEN Rejected(st, 1)
    ELSE Applied(SetScaleChecked(st, ScaleFromOld(p.v, st.sink.configScale)), 1)

\* dbiScalePercent writing the stored scale whatever the current one is
ReadScalePercentUnconditional(p, avail, st) ==
    IF ~CheckStreamStatus(avail, 1) THEN Rejected(st, 1)
    ELSE Applied(SetScaleChecked(st, p.v), 1)

\* If cConfigScale() has a value then it was set via command line.
ReadScalePercent(p, avail, st) ==
    IF ~CheckStreamStatus(avail, 1) THEN Rejected(st, 1)
    ELSE IF st.sink.configScale = kScaleAuto
        THEN Applied(SetScaleChecked(st, p.v), 1)
        ELSE Applied(st, 1)

\* deprecated: read and discarded
ReadLangOld(p, avail, st) ==
    IF ~CheckStreamStatus(avail, 1) THEN Rejected(st, 1)
    ELSE Applied(st, 1)

\* deprecated: read and discarded
ReadCatsAndDogs(p, avail, st) ==
    IF ~CheckStreamStatus(avail, 1) THEN Rejected(st, 1)
    ELSE Applied(st, 1)

\* deprecated: a count and then count peer ids, read and discarded
ReadMutedPeersOld(p, avail, st) ==
    IF ~CheckStreamStatus(avail, 1) THEN Rejected(st, 1)
    ELSE IF ~CheckStreamStatus(avail, 1 + p.count) THEN Rejected(st, 1 + p.count)
    ELSE Applied(st, 1 + p.count)

\* static_cast<Ui::InputSubmitSettings>(v)
InputSubmitSettingsFromInt(v) ==
    CASE v = 0 -> "Enter"
      [] v = 1 -> "CtrlEnter"
      [] OTHER -> "Invalid"

\* ReadSendKeyOld storing the value before it is validated
ReadSendKeyOldSetFirst(p, avail, st) ==
    IF ~CheckStreamStatus(avail, 1) THEN Rejected(st, 1)
    ELSE LET unchecked == InputSubmitSettingsFromInt(p.v)
             set == [st EXCEPT !.sink.sendSubmitWay = unchecked]
         IN IF unchecked # "Enter" /\ unchecked # "CtrlEnter"
                THEN Rejected(set, 1)
                ELSE Applied(set, 1)

\* ReadSendKeyOld without the check of the stored value
ReadSendKeyOldUnchecked(p, avail, st) ==
    IF ~CheckStreamStatus(avail, 1) THEN Rejected(st, 1)
    ELSE Applied([st EXCEPT !.sink.sendSubmitWay = InputSubmitSettingsFromInt(p.v)], 1)

ReadSendKeyOld(p, avail, st) ==
    IF ~CheckStreamStatus(avail, 1) THEN Rejected(st, 1)
    ELSE LET unchecked == InputSubmitSettingsFromInt(p.v)
         IN IF unchecked # "Enter" /\ unchecked # "CtrlEnter"
                THEN Rejected(st, 1)
                ELSE Applied([st EXCEPT !.sink.sendSubmitWay = unchecked], 1)

\* The outer stream holds one byte array; the five call settings are read
\* from a stream over that array, which holds p.innerAvail of them.
ReadCallSettingsOld(p, avail, st) ==
    IF ~CheckStreamStatus(avail, 1) THEN Rejected(st, 1)
    ELSE IF CheckStreamStatus(p.innerAvail, 5)
        THEN Applied([st EXCEPT !.sink.callSettings =
                         [ outputDeviceID |-> p.outputDeviceID,
                           outputVolume |-> p.outputVolume,
                           inputDeviceID |-> p.inputDeviceID,
                           inputVolume |-> p.inputVolume,
                           duckingEnabled |-> p.duckingEnabled ]], 1)
        ELSE Applied(st, 1)

-----------------------------------------------------------------------------
(* ReadSetting: cache limits *)

\* NoTimeLimit without the truncated 64-bit maximum
NoTimeLimitWithoutInt64(storedLimitValue) ==
    \/ storedLimitValue = 0
    \/ storedLimitValue = Int32Max

NoTimeLimit(storedLimitValue) ==
    \/ storedLimitValue = 0
    \/ storedLimitValue = Int32Max
    \/ storedLimitValue = Int64ToInt32(Int64Max)

ReadCacheSettingsOld(p, avail, st) ==
    IF \/ ~CheckStreamStatus(avail, 2)
       \/ p.size <= MaxDataSize
       \/ (~NoTimeLimit(p.time) /\ p.time < 0)
    THEN Rejected(st, 2)
    ELSE Applied([st EXCEPT
            !.context.cacheTotalSizeLimit = p.size,
            !.context.cacheTotalTimeLimit = IF NoTimeLimit(p.time) THEN 0 ELSE p.time,
            !.context.cacheBigFileTotalSizeLimit = p.size,
            !.context.cacheBigFileTotalTimeLimit = IF NoTimeLimit(p.time) THEN 0 ELSE p.time], 2)

\* ReadCacheSettings storing the first pair before the second is validated
ReadCacheSettingsWriteEarly(p, avail, st) ==
    IF \/ ~CheckStreamStatus(avail, 4)
       \/ p.size <= MaxDataSize
       \/ (~NoTimeLimit(p.time) /\ p.time < 0)
    THEN Rejected(st, 4)
    ELSE LET first == [st EXCEPT
                !.context.cacheTotalSizeLimit = p.size,
                !.context.cacheTotalTimeLimit = IF NoTimeLimit(p.time) THEN 0 ELSE p.time]
         IN IF \/ p.sizeBig <= MaxDataSize
               \/ (~NoTimeLimit(p.timeBig) /\ p.timeBig < 0)
            THEN Rejected(first, 4)
            ELSE Applied([first EXCEPT
                    !.context.cacheBigFileTotalSizeLimit = p.sizeBig,
                    !.context.cacheBigFileTotalTimeLimit =
                        IF NoTimeLimit(p.timeBig) THEN 0 ELSE p.timeBig], 4)

\* ReadCacheSettings accepting a big-file size equal to the threshold
ReadCacheSettingsOffByOne(p, avail, st) ==
    IF \/ ~CheckStreamStatus(avail, 4)
       \/ p.size <= MaxDataSize
       \/ p.sizeBig < MaxDataSize
       \/ (~NoTimeLimit(p.time) /\ p.time < 0)
       \/ (~NoTimeLimit(p.timeBig) /\ p.timeBig < 0)
    THEN Rejected(st, 4)
    ELSE Applied([st EXCEPT
            !.context.cacheTotalSizeLimit = p.size,
            !.context.cacheTotalTimeLimit = IF NoTimeLimit(p.time) THEN 0 ELSE p.time,
            !.context.cacheBigFileTotalSizeLimit = p.sizeBig,
            !.context.cacheBigFileTotalTimeLimit = IF NoTimeLimit(p.timeBig) THEN 0 ELSE p.timeBig], 4)

ReadCacheSettings(p, avail, st) ==
    IF \/ ~CheckStreamStatus(avail, 4)
       \/ p.size <= MaxDataSize
       \/ p.sizeBig <= MaxDataSize
       \/ (~NoTimeLimit(p.time) /\ p.time < 0)
       \/ (~NoTimeLimit(p.timeBig) /\ p.timeBig < 0)
    THEN Rejected(st, 4)
    ELSE Applied([st EXCEPT
            !.context.cacheTotalSizeLimit = p.size,
            !.context.cacheTotalTimeLimit = IF NoTimeLimit(p.time) THEN 0 ELSE p.time,
            !.context.cacheBigFileTotalSizeLimit = p.sizeBig,
            !.context.cacheBigFileTotalTimeLimit = IF NoTimeLimit(p.timeBig) THEN 0 ELSE p.timeBig], 4)

-----------------------------------------------------------------------------
(* ReadSetting: theme keys and background tiling *)

ReadThemeKeyOld(p, avail, st) ==
    IF ~CheckStreamStatus(avail, 1) THEN Rejected(st, 1)
    ELSE Applied([st EXCEPT !.context.themeKeyLegacy = p.key], 1)

ReadThemeKey(p, avail, st) ==
    IF ~CheckStreamStatus(avail, 3) THEN Rejected(st, 3)
    ELSE Applied([st EXCEPT !.context.themeKeyDay = p.keyDay,
                            !.context.themeKeyNight = p.keyNight,
                            !.sink.nightMode = (p.nightMode = 1)], 3)

\* bool converted to the int the context stores
BoolToInt(b) == IF b THEN 1 ELSE 0

\* LegacyTile without the custom day background condition
LegacyTileIgnoringBackground(v, ver, hasCustomDayBackground) ==
    IF ver < 8005 THEN FALSE ELSE (v = 1)

\* the tile value the legacy record yields
LegacyTile(v, ver, hasCustomDayBackground) ==
    IF ver < 8005 /\ ~hasCustomDayBackground THEN FALSE ELSE (v = 1)

ReadTileBackgroundOld(p, avail, ver, st) ==
    IF ~CheckStreamStatus(avail, 1) THEN Rejected(st, 1)
    ELSE LET tile == LegacyTile(p.v, ver, st.context.legacyHasCustomDayBackground)
         IN IF st.sink.nightMode
                THEN Applied([st EXCEPT !.context.tileDay = BoolToInt(tile),
                                        !.context.tileRead = TRUE], 1)
                ELSE Applied([st EXCEPT !.context.tileNight = BoolToInt(tile),
                                        !.context.tileRead = TRUE], 1)

ReadTileBackground(p, avail, st) ==
    IF ~CheckStreamStatus(avail, 2) THEN Rejected(st, 2)
    ELSE Applied([st EXCEPT !.context.tileDay = p.tileDay,
                            !.context.tileNight = p.tileNight,
                            !.context.tileRead = TRUE], 2)

-----------------------------------------------------------------------------
(* ReadSetting: proxies *)

\* the readProxy lambda: one proxy sub-record
ReadProxy(sub) ==
    [ type |-> CASE sub.proxyType = "dbictTcpProxy" -> "Socks5"
                 [] sub.proxyType = "dbictHttpProxy" -> "Http"
                 [] sub.proxyType = "kProxyTypeShift+Socks5" -> "Socks5"
                 [] sub.proxyType = "kProxyTypeShift+Http" -> "Http"
                 [] sub.proxyType = "kProxyTypeShift+Mtproto" -> "Mtproto"
                 [] OTHER -> "None",
      host |-> sub.host,
      port |-> sub.port,
      user |-> sub.user,
      password |-> sub.password ]

\* The loop over the count sub-records of a proxy list, from sub-record i on:
\* yields the list and the corrected index.
RECURSIVE ProxyListLoop(_, _, _, _)
ProxyListLoop(entries, i, list, index) ==
    IF i > Len(entries) THEN [list |-> list, index |-> index]
    ELSE LET proxy == ReadProxy(entries[i])
         IN IF ProxyValid(proxy)
                THEN ProxyListLoop(entries, i + 1, Append(list, proxy), index)
            ELSE IF IndexBelowNegSize(index, Len(list))
                THEN ProxyListLoop(entries, i + 1, list, index + 1)
            ELSE IF IndexAboveSize(index, Len(list))
                THEN ProxyListLoop(entries, i + 1, list, index - 1)
            ELSE ProxyListLoop(entries, i + 1, list, index)

\* The index and the calls flag a proxy list starts its loop with.
ProxyListStart(connectionType, count, index, calls) ==
    IF connectionType = "dbictProxiesList"
        THEN [index |-> index, calls |-> calls]
    ELSE IF Abs(index) > count
        THEN [index |-> index - (IF index > 0 THEN count ELSE 0 - count), calls |-> 1]
    ELSE [index |-> index, calls |-> 0]

\* Global::SetProxySettings taking the stored settings as they are
UncheckedProxySettings(settings, selected) ==
    LET unchecked == SettingsFromInt(settings)
    IN IF unchecked = "Invalid" THEN "System" ELSE unchecked

\* Global::SetProxySettings of the list branch
CheckedProxySettings(settings, selected) ==
    LET unchecked == SettingsFromInt(settings)
    IN CASE unchecked = "Enabled" ->
                IF ProxyValid(selected) THEN "Enabled" ELSE "System"
         [] unchecked \in {"Disabled", "System"} -> unchecked
         [] OTHER -> "System"

\* dbiConnectionType with dbictProxiesListOld or dbictProxiesList
ReadProxiesList(p, avail, st) ==
    LET isOld == (p.connectionType = "dbictProxiesListOld")
        header == IF isOld THEN 3 ELSE 5
        count == IF CheckStreamStatus(avail, 2) THEN p.count ELSE 0
        nread == header + 5 * count
        start == ProxyListStart(p.connectionType, count, p.index, p.calls)
        loop == ProxyListLoop(SubSeq(p.entries, 1, count), 1, <<>>, start.index)
        list == loop.list
        inRange(index) == index > 0 /\ index <= Len(list)
        settings == IF isOld
                        THEN SettingsToInt(IF inRange(loop.index) THEN "Enabled" ELSE "System")
                        ELSE p.settings
        index == IF isOld THEN Abs(loop.index) ELSE loop.index
        selected == IF inRange(index) THEN list[index] ELSE ProxyNone
    IN IF ~CheckStreamStatus(avail, nread) THEN Rejected(st, nread)
       ELSE Applied([st EXCEPT
                !.sink.proxiesList = list,
                !.sink.selectedProxy = selected,
                !.sink.proxySettings = CheckedProxySettings(settings, selected),
                !.sink.useProxyForCalls = (start.calls = 1)], nread)

\* dbiConnectionType with any other connection type: one proxy sub-record
ReadSingleProxy(p, avail, st) ==
    LET proxy == ReadProxy(p.entries[1])
    IN IF ~CheckStreamStatus(avail, 6) THEN Rejected(st, 6)
       ELSE IF ProxyValid(proxy)
           THEN Applied([st EXCEPT
                    !.sink.proxiesList = <<proxy>>,
                    !.sink.selectedProxy = proxy,
                    !.sink.proxySettings =
                        IF p.connectionType \in {"dbictTcpProxy", "dbictHttpProxy"}
                            THEN "Enabled" ELSE "System"], 6)
           ELSE Applied([st EXCEPT
                    !.sink.proxiesList = <<>>,
                    !.sink.selectedProxy = ProxyNone,
                    !.sink.proxySettings = "System"], 6)

ReadConnectionType(p, avail, st) ==
    IF ~CheckStreamStatus(avail, 1) THEN Rejected(st, 1)
    ELSE IF p.connectionType \in {"dbictProxiesListOld", "dbictProxiesList"}
        THEN ReadProxiesList(p, avail, st)
        ELSE ReadSingleProxy(p, avail, st)

ReadConnectionTypeOld(p, avail, st) ==
    IF ~CheckStreamStatus(avail, 1) THEN Rejected(st, 1)
    ELSE IF p.v \in {"dbictHttpProxy", "dbictTcpProxy"} /\ ~CheckStreamStatus(avail, 5)
        THEN Rejected(st, 5)
    ELSE LET proxy == IF p.v \in {"dbictHttpProxy", "dbictTcpProxy"}
                        THEN [ type |-> IF p.v = "dbictTcpProxy" THEN "Socks5" ELSE "Http",
                               host |-> p.host, port |-> p.port,
                               user |-> p.user, password |-> p.password ]
                        ELSE ProxyNone
             nread == IF p.v \in {"dbictHttpProxy", "dbictTcpProxy"} THEN 5 ELSE 1
         IN Applied([st EXCEPT
                !.sink.selectedProxy = IF ProxyValid(proxy) THEN proxy ELSE ProxyNone,
                !.sink.proxySettings = IF ProxyValid(proxy) THEN "Enabled" ELSE "System",
                !.sink.proxiesList = IF ProxyValid(proxy) THEN <<proxy>> ELSE <<>>], nread)

-----------------------------------------------------------------------------
(* ReadSetting: the legacy recent emoji *)

\* A 64-bit key is four 16-bit limbs, most significant first; a 32-bit key
\* is two.  uint64(item.first) extends a 32-bit key with zeros.
ToUint64(key32) == <<0, 0>> \o key32

\* the UTF-16 code units of one 32-bit half of a key
CodeUnits(code) == (IF code[1] # 0 THEN <<code[1]>> ELSE <<>>) \o <<code[2]>>

\* Ui::Emoji::IdFromOldKey: the id is the code units the key holds; a key
\* whose upper half starts with 0xFFFF numbers an old sequence, and a number
\* outside the table of sequences has the empty id.  One entry stands for
\* the table.
IdFromOldKey(oldKey) ==
    LET upper == <<oldKey[1], oldKey[2]>>
        lower == <<oldKey[3], oldKey[4]>>
        code == IF upper = <<0, 0>> THEN lower ELSE upper
        code2 == IF upper = <<0, 0>> THEN <<0, 0>> ELSE lower
    IN IF code[1] # 65535
          THEN CodeUnits(code) \o (IF code2 # <<0, 0>> THEN CodeUnits(code2) ELSE <<>>)
          ELSE IF code[2] = 0 THEN <<55357, 56424, 8205, 55357, 56425>> ELSE <<>>

\* the switch (oldKey) with the last key mapped to the composite of the first
RemapOldOldKeySlip(oldKey) ==
    CASE oldKey = <<0, 0, 55356, 56815>> -> <<55356, 56815, 55356, 56821>>
      [] oldKey = <<0, 0, 55356, 56816>> -> <<55356, 56816, 55356, 56823>>
      [] oldKey = <<0, 0, 55356, 56809>> -> <<55356, 56809, 55356, 56810>>
      [] oldKey = <<0, 0, 55356, 56808>> -> <<55356, 56808, 55356, 56819>>
      [] oldKey = <<0, 0, 55356, 56826>> -> <<55356, 56826, 55356, 56824>>
      [] oldKey = <<0, 0, 55356, 56811>> -> <<55356, 56811, 55356, 56823>>
      [] oldKey = <<0, 0, 55356, 56810>> -> <<55356, 56810, 55356, 56824>>
      [] oldKey = <<0, 0, 55356, 56814>> -> <<55356, 56814, 55356, 56825>>
      [] oldKey = <<0, 0, 55356, 56823>> -> <<55356, 56823, 55356, 56826>>
      [] oldKey = <<0, 0, 55356, 56812>> -> <<55356, 56815, 55356, 56821>>
      [] OTHER -> oldKey

\* the switch (oldKey) of dbiRecentEmojiOldOld
RemapOldOldKey(oldKey) ==
    CASE oldKey = <<0, 0, 55356, 56815>> -> <<55356, 56815, 55356, 56821>>
      [] oldKey = <<0, 0, 55356, 56816>> -> <<55356, 56816, 55356, 56823>>
      [] oldKey = <<0, 0, 55356, 56809>> -> <<55356, 56809, 55356, 56810>>
      [] oldKey = <<0, 0, 55356, 56808>> -> <<55356, 56808, 55356, 56819>>
      [] oldKey = <<0, 0, 55356, 56826>> -> <<55356, 56826, 55356, 56824>>
      [] oldKey = <<0, 0, 55356, 56811>> -> <<55356, 56811, 55356, 56823>>
      [] oldKey = <<0, 0, 55356, 56810>> -> <<55356, 56810, 55356, 56824>>
      [] oldKey = <<0, 0, 55356, 56814>> -> <<55356, 56814, 55356, 56825>>
      [] oldKey = <<0, 0, 55356, 56823>> -> <<55356, 56823, 55356, 56826>>
      [] oldKey = <<0, 0, 55356, 56812>> -> <<55356, 56812, 55356, 56807>>
      [] OTHER -> oldKey

\* for (auto &item : v) of dbiRecentEmojiOldOld, from item i on
RECURSIVE RecentEmojiOldOldLoop(_, _, _)
RecentEmojiOldOldLoop(v, i, preload) ==
    IF i > Len(v) THEN preload
    ELSE LET oldKey == RemapOldOldKey(ToUint64(v[i].first))
             id == IdFromOldKey(oldKey)
         IN RecentEmojiOldOldLoop(v, i + 1,
                IF id # <<>>
                    THEN Append(preload, [first |-> id, second |-> v[i].second])
                    ELSE preload)

ReadRecentEmojiOldOld(p, avail, st) ==
    IF ~CheckStreamStatus(avail, 1) THEN Rejected(st, 1)
    ELSE IF p.v # <<>>
        THEN Applied([st EXCEPT !.sink.recentEmojiPreload =
                         RecentEmojiOldOldLoop(p.v, 1, <<>>)], 1)
        ELSE Applied(st, 1)

\* for (auto &item : v) of dbiRecentEmojiOld, from item i on
RECURSIVE RecentEmojiOldLoop(_, _, _)
RecentEmojiOldLoop(v, i, preload) ==
    IF i > Len(v) THEN preload
    ELSE LET id == IdFromOldKey(v[i].first)
         IN RecentEmojiOldLoop(v, i + 1,
                IF id # <<>>
                    THEN Append(preload, [first |-> id, second |-> v[i].second])
                    ELSE preload)

ReadRecentEmojiOld(p, avail, st) ==
    IF ~CheckStreamStatus(avail, 1) THEN Rejected(st, 1)
    ELSE IF p.v # <<>>
        THEN Applied([st EXCEPT !.sink.recentEmojiPreload =
                         RecentEmojiOldLoop(p.v, 1, <<>>)], 1)
        ELSE Applied(st, 1)

-----------------------------------------------------------------------------
(* ReadSetting *)

KnownTags ==
    { "dbiDcOptionOldOld", "dbiDcOptionOld", "dbiDcOptionsOld",
      "dbiChatSizeMaxOld", "dbiSavedGifsLimitOld", "dbiStickersRecentLimitOld",
      "dbiStickersFavedLimitOld", "dbiMegagroupSizeMaxOld",
      "dbiTxtDomainStringOldOld", "dbiTxtDomainStringOld",
      "dbiFallbackProductionConfig",
      "dbiAutoStart", "dbiWorkMode", "dbiLangOld", "dbiCatsAndDogs",
      "dbiMutedPeersOld", "dbiSendKeyOld", "dbiCallSettingsOld",
      "dbiCacheSettingsOld", "dbiCacheSettings",
      "dbiThemeKeyOld", "dbiThemeKey", "dbiTileBackgroundOld", "dbiTileBackground",
      "dbiConnectionTypeOld", "dbiConnectionType",
      "dbiScaleOld", "dbiScalePercent",
      "dbiRecentEmojiOldOld", "dbiRecentEmojiOld" }

\* the tags whose record is read and discarded
DeprecatedTags ==
    { "dbiTxtDomainStringOldOld", "dbiLangOld", "dbiCatsAndDogs", "dbiMutedPeersOld" }

\* the cases of the switch (blockId)
ReadKnownSetting(blockId, p, avail, ver, st) ==
    CASE blockId = "dbiDcOptionOldOld" -> ReadDcOptionOldOld(p, avail, st)
      [] blockId = "dbiDcOptionOld" -> ReadDcOptionOld(p, avail, st)
      [] blockId = "dbiDcOptionsOld" -> ReadDcOptionsOld(p, avail, st)
      [] blockId = "dbiChatSizeMaxOld" -> ReadChatSizeMaxOld(p, avail, st)
      [] blockId = "dbiSavedGifsLimitOld" -> ReadSavedGifsLimitOld(p, avail, st)
      [] blockId = "dbiStickersRecentLimitOld" -> ReadStickersRecentLimitOld(p, avail, st)
      [] blockId = "dbiStickersFavedLimitOld" -> ReadStickersFavedLimitOld(p, avail, st)
      [] blockId = "dbiMegagroupSizeMaxOld" -> ReadMegagroupSizeMaxOld(p, avail, st)
      [] blockId = "dbiAutoStart" -> ReadAutoStart(p, avail, st)
      [] blockId = "dbiCacheSettingsOld" -> ReadCacheSettingsOld(p, avail, st)
      [] blockId = "dbiCacheSettings" -> ReadCacheSettings(p, avail, st)
      [] blockId = "dbiWorkMode" -> ReadWorkMode(p, avail, st)
      [] blockId = "dbiTxtDomainStringOldOld" -> ReadTxtDomainStringOldOld(p, avail, st)
      [] blockId = "dbiTxtDomainStringOld" -> ReadTxtDomainStringOld(p, avail, st)
      [] blockId = "dbiConnectionTypeOld" -> ReadConnectionTypeOld(p, avail, st)
      [] blockId = "dbiConnectionType" -> ReadConnectionType(p, avail, st)
      [] blockId = "dbiThemeKeyOld" -> ReadThemeKeyOld(p, avail, st)
      [] blockId = "dbiThemeKey" -> ReadThemeKey(p, avail, st)
      [] blockId = "dbiScaleOld" -> ReadScaleOld(p, avail, st)
      [] blockId = "dbiScalePercent" -> ReadScalePercent(p, avail, st)
      [] blockId = "dbiRecentEmojiOldOld" -> ReadRecentEmojiOldOld(p, avail, st)
      [] blockId = "dbiRecentEmojiOld" -> ReadRecentEmojiOld(p, avail, st)
      [] blockId = "dbiLangOld" -> ReadLangOld(p, avail, st)
      [] blockId = "dbiMutedPeersOld" -> ReadMutedPeersOld(p, avail, st)
      [] blockId = "dbiSendKeyOld" -> ReadSendKeyOld(p, avail, st)
      [] blockId = "dbiCatsAndDogs" -> ReadCatsAndDogs(p, avail, st)
      [] blockId = "dbiTileBackgroundOld" -> ReadTileBackgroundOld(p, avail, ver, st)
      [] blockId = "dbiTileBackground" -> ReadTileBackground(p, avail, st)
      [] blockId = "dbiCallSettingsOld" -> ReadCallSettingsOld(p, avail, st)
      [] blockId = "dbiFallbackProductionConfig" -> ReadFallbackProductionConfig(p, avail, st)

\* ReadSetting skipping a tag it does not know
ReadSettingSkipUnknown(blockId, p, avail, ver, st) ==
    IF blockId \in KnownTags
        THEN ReadKnownSetting(blockId, p, avail, ver, st)
        ELSE Applied(st, 0)

\* ReadSetting(blockId, stream, version, context) on the state
\* st == [context, sink]; yields [ok, context, sink, nread].  The default
\* case of the switch returns false before anything is read.
ReadSetting(blockId, p, avail, ver, st) ==
    IF blockId \in KnownTags
        THEN ReadKnownSetting(blockId, p, avail, ver, st)
        ELSE Rejected(st, 0)

-----------------------------------------------------------------------------
(* ApplyReadFallbackConfig *)

\* MergeLegacyFields applying a chat size limit of zero
MergeLegacyFieldsFromZero(ctx, config) ==
    [ dcOptions |-> AddFromOther(config.dcOptions, ctx.fallbackConfigLegacyDcOptions),
      chatSizeMax |->
          IF ctx.fallbackConfigLegacyChatSizeMax >= 0
              THEN ctx.fallbackConfigLegacyChatSizeMax ELSE config.chatSizeMax,
      savedGifsLimit |->
          IF ctx.fallbackConfigLegacySavedGifsLimit > 0
              THEN ctx.fallbackConfigLegacySavedGifsLimit ELSE config.savedGifsLimit,
      stickersRecentLimit |->
          IF ctx.fallbackConfigLegacyStickersRecentLimit > 0
              THEN ctx.fallbackConfigLegacyStickersRecentLimit
              ELSE config.stickersRecentLimit,
      stickersFavedLimit |->
          IF ctx.fallbackConfigLegacyStickersFavedLimit > 0
              THEN ctx.fallbackConfigLegacyStickersFavedLimit
              ELSE config.stickersFavedLimit,
      megagroupSizeMax |->
          IF ctx.fallbackConfigLegacyMegagroupSizeMax > 0
              THEN ctx.fallbackConfigLegacyMegagroupSizeMax ELSE config.megagroupSizeMax,
      txtDomainString |->
          IF ctx.fallbackConfigLegacyTxtDomainString # ""
              THEN ctx.fallbackConfigLegacyTxtDomainString ELSE config.txtDomainString ]

\* the field-by-field path: the legacy fields of the context into config
MergeLegacyFields(ctx, config) ==
    [ dcOptions |-> AddFromOther(config.dcOptions, ctx.fallbackConfigLegacyDcOptions),
      chatSizeMax |->
          IF ctx.fallbackConfigLegacyChatSizeMax > 0
              THEN ctx.fallbackConfigLegacyChatSizeMax ELSE config.chatSizeMax,
      savedGifsLimit |->
          IF ctx.fallbackConfigLegacySavedGifsLimit > 0
              THEN ctx.fallbackConfigLegacySavedGifsLimit ELSE config.savedGifsLimit,
      stickersRecentLimit |->
          IF ctx.fallbackConfigLegacyStickersRecentLimit > 0
              THEN ctx.fallbackConfigLegacyStickersRecentLimit
              ELSE config.stickersRecentLimit,
      stickersFavedLimit |->
          IF ctx.fallbackConfigLegacyStickersFavedLimit > 0
              THEN ctx.fallbackConfigLegacyStickersFavedLimit
              ELSE config.stickersFavedLimit,
      megagroupSizeMax |->
          IF ctx.fallbackConfigLegacyMegagroupSizeMax > 0
              THEN ctx.fallbackConfigLegacyMegagroupSizeMax ELSE config.megagroupSizeMax,
      txtDomainString |->
          IF ctx.fallbackConfigLegacyTxtDomainString # ""
              THEN ctx.fallbackConfigLegacyTxtDomainString ELSE config.txtDomainString ]

\* ApplyReadFallbackConfig merging the legacy fields over the blob as well
ApplyReadFallbackConfigMergeOverBlob(ctx, config) ==
    IF ctx.fallbackConfig = <<>>
        THEN MergeLegacyFields(ctx, config)
        ELSE MergeLegacyFields(ctx, ConstructFallbackProductionConfig(ctx.fallbackConfig))

\* the fallback production configuration ApplyReadFallbackConfig leaves
ApplyReadFallbackConfig(ctx, config) ==
    IF ctx.fallbackConfig = <<>>
        THEN MergeLegacyFields(ctx, config)
        ELSE ConstructFallbackProductionConfig(ctx.fallbackConfig)

-----------------------------------------------------------------------------
(* The records a stream may hold *)

Rec(blockId, p, avail) == [blockId |-> blockId, p |-> p, avail |-> avail]

\* a record of n fields: whole, cut by one field, or missing altogether
Avails(n) == {a \in {0, n - 1, n} : a >= 0}

\* a record of n fields: whole, or cut by one field
WholeOrCut(n) == {n - 1, n}

OptionA == [id |-> 1, flags |-> 0, ip |-> "149.154.175.50", port |-> 443]
OptionB == [id |-> 2, flags |-> 1, ip |-> "149.154.167.51", port |-> 80]

DcRecords ==
    {Rec("dbiDcOptionOldOld",
         [dcId |-> OptionA.id, host |-> "", ip |-> OptionA.ip, port |-> OptionA.port], a)
        : a \in WholeOrCut(4)}
    \cup {Rec("dbiDcOptionOld",
              [dcIdWithShift |-> OptionB.id, flags |-> OptionB.flags,
               ip |-> OptionB.ip, port |-> OptionB.port], a) : a \in WholeOrCut(4)}
    \cup {Rec("dbiDcOptionsOld", [serialized |-> {OptionA, OptionB}], a)
              : a \in WholeOrCut(1)}

LimitTags ==
    { "dbiChatSizeMaxOld", "dbiSavedGifsLimitOld", "dbiStickersRecentLimitOld",
      "dbiStickersFavedLimitOld", "dbiMegagroupSizeMaxOld" }

LimitRecords(values) ==
    {Rec(t, [v |-> x], a) : t \in LimitTags, x \in values, a \in WholeOrCut(1)}

TxtDomainRecords(values) ==
    {Rec("dbiTxtDomainStringOld", [v |-> x], a) : x \in values, a \in WholeOrCut(1)}

BlobA == <<100, 20, 15, 3, 5000, "blob.example", {OptionB}>>

FallbackConfigRecords(blobs) ==
    {Rec("dbiFallbackProductionConfig", [config |-> b], a)
        : b \in blobs, a \in WholeOrCut(1)}

FlagRecords ==
    {Rec("dbiAutoStart", [v |-> x], a) : x \in {0, 1}, a \in WholeOrCut(1)}
    \cup {Rec("dbiWorkMode", [v |-> x], a)
              : x \in {"dbiwmTrayOnly", "dbiwmWindowOnly", "other"}, a \in WholeOrCut(1)}
    \cup {Rec("dbiCallSettingsOld",
              [outputDeviceID |-> "out", outputVolume |-> 50, inputDeviceID |-> "in",
               inputVolume |-> 60, duckingEnabled |-> 0, innerAvail |-> i], a)
              : i \in WholeOrCut(5), a \in WholeOrCut(1)}

DeprecatedRecords ==
    {Rec(t, [v |-> 1], a)
        : t \in {"dbiTxtDomainStringOldOld", "dbiLangOld", "dbiCatsAndDogs"},
          a \in WholeOrCut(1)}
    \cup {Rec("dbiMutedPeersOld", [count |-> c], a) : c \in {0, 2}, a \in {0, 1, 3}}

SendKeyRecords(values) ==
    {Rec("dbiSendKeyOld", [v |-> x], a) : x \in values, a \in WholeOrCut(1)}

CacheRecords(sizes, times) ==
    {Rec("dbiCacheSettingsOld", [size |-> s, time |-> t], a)
        : s \in sizes, t \in times, a \in Avails(2)}
    \cup {Rec("dbiCacheSettings",
              [size |-> s, time |-> t, sizeBig |-> sb, timeBig |-> tb], a)
              : s \in sizes, t \in times, sb \in sizes, tb \in times, a \in Avails(4)}

ThemeRecords ==
    {Rec("dbiThemeKeyOld", [key |-> 7], a) : a \in WholeOrCut(1)}
    \cup {Rec("dbiThemeKey", [keyDay |-> 8, keyNight |-> 9, nightMode |-> n], a)
              : n \in {0, 1}, a \in WholeOrCut(3)}

TileRecords(values) ==
    {Rec("dbiTileBackgroundOld", [v |-> x], a) : x \in values, a \in WholeOrCut(1)}
    \cup {Rec("dbiTileBackground", [tileDay |-> d, tileNight |-> n], a)
              : d \in {0, 1}, n \in {0, 1}, a \in WholeOrCut(2)}

ScaleRecords(olds, percents) ==
    {Rec("dbiScaleOld", [v |-> x], a) : x \in olds, a \in WholeOrCut(1)}
    \cup {Rec("dbiScalePercent", [v |-> x], a) : x \in percents, a \in WholeOrCut(1)}

\* lists of at most n items (key, count) over keys and counts
EmojiLists(keys, counts, n) ==
    UNION {[1..k -> [first : keys, second : counts]] : k \in 0..n}

\* the recent-emoji records that hold the lists lists32 of 32-bit keys and
\* lists64 of 64-bit keys
EmojiRecords(lists32, lists64) ==
    {Rec("dbiRecentEmojiOldOld", [v |-> l], a) : l \in lists32, a \in WholeOrCut(1)}
    \cup {Rec("dbiRecentEmojiOld", [v |-> l], a) : l \in lists64, a \in WholeOrCut(1)}

UnknownTags == {"unknown 0", "unknown 4095"}

UnknownRecords == {Rec(t, [v |-> 1], a) : t \in UnknownTags, a \in {0, 1}}

Hosts == <<"h1", "h2", "h3", "h4", "h5", "h6">>

\* the i-th sub-record of a list: a proxy of its own host, or one that
\* decodes to the empty proxy
ProxyEntry(kind, i) ==
    [ proxyType |-> IF kind = "proxy" THEN "kProxyTypeShift+Socks5" ELSE "dbictAuto",
      host |-> Hosts[i], port |-> 1080, user |-> "", password |-> "" ]

ProxyEntries(count) ==
    {[i \in 1..count |-> ProxyEntry(kinds[i], i)]
        : kinds \in [1..count -> {"proxy", "empty"}]}

\* the stored (settings, calls) pairs of a dbictProxiesList record
StoredModes == {<<0, 0>>, <<1, 1>>, <<2, 0>>, <<7, 1>>}

ProxyListRecords(counts, indexes) ==
    UNION {
        {Rec("dbiConnectionType",
             [connectionType |-> "dbictProxiesListOld", count |-> c, index |-> x,
              settings |-> 0, calls |-> 0, entries |-> e], 3 + 5 * c)
            : x \in indexes, e \in ProxyEntries(c)}
        \cup {Rec("dbiConnectionType",
                  [connectionType |-> "dbictProxiesList", count |-> c, index |-> x,
                   settings |-> m[1], calls |-> m[2], entries |-> e], 5 + 5 * c)
                  : x \in indexes, e \in ProxyEntries(c), m \in StoredModes}
        : c \in counts}

\* proxy lists whose stream ends one field early
CutProxyListRecords(counts, indexes) ==
    {[r EXCEPT !.avail = @ - 1] : r \in ProxyListRecords(counts, indexes)}

SingleProxyRecords ==
    {Rec("dbiConnectionType",
         [connectionType |-> t,
          entries |-> <<[proxyType |-> t, host |-> h, port |-> 1080,
                         user |-> "", password |-> ""]>>], a)
        : t \in {"dbictAuto", "dbictTcpProxy", "kProxyTypeShift+Mtproto"},
          h \in {"", "h1"}, a \in WholeOrCut(6)}
    \cup {Rec("dbiConnectionTypeOld",
              [v |-> t, host |-> h, port |-> 1080, user |-> "", password |-> ""], a)
              : t \in {"dbictAuto", "dbictHttpProxy", "dbictTcpProxy"},
                h \in {"", "h1"}, a \in {0, 1, 4, 5}}

-----------------------------------------------------------------------------
(* The stream reader *)

InitWith(versions, customs, nights) ==
    /\ version \in versions
    /\ \E c \in customs : context = InitContext(c)
    /\ \E n \in nights : sink = InitSink(n)
    /\ pc = "reading"
    /\ decoded = <<>>
    /\ last = NoCall

\* One turn of the read loop: the next record of the stream, drawn from
\* records, goes through ReadSetting; the first false ends the read.  With
\* track the record, when decoded, is appended to decoded.
ReadBlock(records, track) ==
    /\ pc = "reading"
    /\ \E r \in records :
        LET res == ReadSetting(r.blockId, r.p, r.avail, version,
                               [context |-> context, sink |-> sink])
        IN /\ context' = res.context
           /\ sink' = res.sink
           /\ pc' = IF res.ok THEN "reading" ELSE "failed"
           /\ decoded' = IF track /\ res.ok THEN Append(decoded, r) ELSE decoded
           /\ last' = [blockId |-> r.blockId, p |-> r.p, avail |-> r.avail,
                       ok |-> res.ok, nread |-> res.nread]
    /\ UNCHANGED version

\* The stream ended without a failure: ApplyReadFallbackConfig(context).
EndOfStream ==
    /\ pc = "reading"
    /\ sink' = [sink EXCEPT !.fallbackProductionConfig =
                    ApplyReadFallbackConfig(context, @)]
    /\ pc' = "done"
    /\ UNCHANGED <<context, version, decoded, last>>

-----------------------------------------------------------------------------
(* Specifications *)

Versions == {8004, 8005}

CacheSizes == {0, MaxDataSize, MaxDataSize + 1, MaxDataSize + 2}
CacheTimes == {0 - Int32Max, -2, -1, 0, 1, 86400, Int32Max}

\* a stream of records of every modelled kind, at most MaxRecords long
GeneralRecords ==
    DcRecords \cup LimitRecords({50}) \cup TxtDomainRecords({"txt.example"})
    \cup FallbackConfigRecords({BlobA}) \cup FlagRecords \cup DeprecatedRecords
    \cup SendKeyRecords({0, 1, 2}) \cup ThemeRecords \cup TileRecords({1})
    \cup {r \in CacheRecords({MaxDataSize, MaxDataSize + 1}, {-2, 86400}) : r.avail > 0}
    \cup ProxyListRecords({1}, {1}) \cup CutProxyListRecords({1}, {1})
    \cup SingleProxyRecords
    \cup ScaleRecords({2}, {150})
    \cup EmojiRecords({<<[first |-> <<55356, 56815>>, second |-> 1]>>},
                      {<<[first |-> <<55356, 56815, 55356, 56821>>, second |-> 1]>>})
    \cup UnknownRecords

Init == InitWith({8005}, {FALSE}, {FALSE})

Next ==
    \/ /\ Len(decoded) < MaxRecords
       /\ ReadBlock(GeneralRecords, TRUE)
    \/ EndOfStream

Spec == Init /\ [][Next]_vars

\* streams of the fallback-configuration records, at most MaxRecords long
FallbackRecords ==
    DcRecords \cup LimitRecords({-1, 0, 50}) \cup TxtDomainRecords({"", "txt.example"})
    \cup FallbackConfigRecords({<<>>, BlobA})

NextFallback ==
    \/ /\ Len(decoded) < MaxRecords
       /\ ReadBlock(FallbackRecords, TRUE)
    \/ EndOfStream

SpecFallback == Init /\ [][NextFallback]_vars

\* streams of cache-limit records
NextCache ==
    \/ ReadBlock(CacheRecords(CacheSizes, CacheTimes), FALSE)
    \/ EndOfStream

SpecCache == Init /\ [][NextCache]_vars

\* streams that hold one proxy record
ProxyRecords ==
    ProxyListRecords(0..MaxCount, (0 - MaxIndex)..MaxIndex)
    \cup CutProxyListRecords(0..MaxCount, {1})
    \cup SingleProxyRecords

NextProxy ==
    \/ /\ last = NoCall
       /\ ReadBlock(ProxyRecords, FALSE)
    \/ EndOfStream

SpecProxy == Init /\ [][NextProxy]_vars

\* streams of any number of proxy records: lists of up to two sub-records in
\* both forms, whole and cut, single proxies and dbiConnectionTypeOld
ProxySequenceRecords ==
    ProxyListRecords(0..2, (0 - MaxIndex)..MaxIndex)
    \cup CutProxyListRecords(0..2, {1})
    \cup SingleProxyRecords

NextProxySequence ==
    \/ ReadBlock(ProxySequenceRecords, FALSE)
    \/ EndOfStream

SpecProxySequence == Init /\ [][NextProxySequence]_vars

\* streams of theme and tiling records, for every version, custom day
\* background and night mode the read may start with
InitTile == InitWith(Versions, BOOLEAN, BOOLEAN)

NextTile ==
    \/ ReadBlock(ThemeRecords \cup TileRecords({0, 1, 2}), FALSE)
    \/ EndOfStream

SpecTile == InitTile /\ [][NextTile]_vars

\* streams of legacy data-center option records in the three encodings, in
\* any order and with repeats, with legacy limit records between them
OptionC == [id |-> 3, flags |-> 0, ip |-> "149.154.175.100", port |-> 443]
OptionD == [id |-> 4, flags |-> 16, ip |-> "149.154.167.91", port |-> 5222]

DcOptionRecords ==
    {Rec("dbiDcOptionOldOld",
         [dcId |-> o.id, host |-> "", ip |-> o.ip, port |-> o.port], a)
        : o \in {OptionA, OptionC}, a \in WholeOrCut(4)}
    \cup {Rec("dbiDcOptionOld",
              [dcIdWithShift |-> o.id, flags |-> o.flags, ip |-> o.ip, port |-> o.port], a)
              : o \in {OptionB, OptionD}, a \in WholeOrCut(4)}
    \cup {Rec("dbiDcOptionsOld", [serialized |-> z], a)
              : z \in {{}, {OptionA}, {OptionB, OptionC}}, a \in WholeOrCut(1)}

NextDc ==
    \/ ReadBlock(DcOptionRecords \cup LimitRecords({50}), FALSE)
    \/ EndOfStream

SpecDc == Init /\ [][NextDc]_vars

\* streams of scale records, read with and without a command-line scale
Scales == {kScaleAuto, 100, 125, 150, 200}

InitScale ==
    /\ version \in Versions
    /\ context = InitContext(FALSE)
    /\ \E scale \in Scales : sink = [InitSink(FALSE) EXCEPT !.configScale = scale]
    /\ pc = "reading"
    /\ decoded = <<>>
    /\ last = NoCall

NextScale ==
    \/ ReadBlock(ScaleRecords(0..5, Scales), FALSE)
    \/ EndOfStream

SpecScale == InitScale /\ [][NextScale]_vars

\* streams of legacy recent-emoji records.  The 32-bit keys: the ten keys of
\* the switch, a regional indicator outside it, two plain emoji, an old
\* sequence and a sequence number outside the table.
SwitchKeys32 ==
    {<<55356, low>> : low \in {56815, 56816, 56809, 56808, 56826,
                                56811, 56810, 56814, 56823, 56812}}

Keys32 ==
    SwitchKeys32 \cup {<<55356, 56813>>, <<0, 10084>>, <<55357, 56832>>,
                       <<65535, 0>>, <<65535, 65535>>}

\* the 64-bit keys: every 32-bit key extended, two composite keys, and the
\* sequence keys in the upper half
Keys64 ==
    {ToUint64(k) : k \in Keys32}
    \cup {<<55356, 56815, 55356, 56821>>, <<55356, 56812, 55356, 56807>>,
          <<65535, 0, 0, 0>>, <<65535, 65535, 0, 0>>}

\* every key alone, and the lists of at most MaxEmoji items over a legacy
\* key, a plain or composite key and a key with an empty id
RecentEmojiRecords ==
    EmojiRecords(
        EmojiLists(Keys32, {1}, 1)
            \cup EmojiLists({<<55356, 56815>>, <<0, 10084>>, <<65535, 65535>>},
                            {1, 2}, MaxEmoji),
        EmojiLists(Keys64, {1}, 1)
            \cup EmojiLists({<<0, 0, 55356, 56815>>, <<55356, 56815, 55356, 56821>>,
                             <<65535, 65535, 0, 0>>}, {1, 2}, MaxEmoji))

NextEmoji ==
    \/ ReadBlock(RecentEmojiRecords, FALSE)
    \/ EndOfStream

SpecEmoji == Init /\ [][NextEmoji]_vars

-----------------------------------------------------------------------------
(* Properties *)

\* the state the read loop leaves after the records recs, read in order from st
RECURSIVE Replay(_, _)
Replay(recs, st) ==
    IF recs = <<>> THEN st
    ELSE LET r == Head(recs)
             res == ReadSetting(r.blockId, r.p, r.avail, version, st)
         IN Replay(Tail(recs), [context |-> res.context, sink |-> res.sink])

\* the state the general specification starts the read in
StartState == [context |-> InitContext(FALSE), sink |-> InitSink(FALSE)]

\* C1: whenever ReadSetting returns false (stream status not Ok, validation
\* rejected, or unknown tag), the context and the sink are exactly as they
\* were before the call.
C1_NoPartialEffects ==
    [][~last'.ok => (context' = context /\ sink' = sink)]_vars

\* a record rejected by validation after fields that would have passed, at
\* the end of a stream whose earlier record was applied
C1_Witness ==
    /\ pc = "failed" /\ ~last.ok
    /\ last.blockId = "dbiCacheSettings" /\ last.avail = 4
    /\ last.p.size > MaxDataSize /\ last.p.sizeBig <= MaxDataSize
    /\ Len(decoded) = 1 /\ decoded[1].blockId = "dbiCacheSettingsOld"
    /\ context.cacheTotalSizeLimit = decoded[1].p.size

\* C2: a stream is read record by record up to the first ReadSetting that
\* returns false; no step follows the failure, and the context and the sink
\* are those produced by the successfully decoded prefix alone (at the end
\* of a stream without failure, with ApplyReadFallbackConfig applied to it).
C2_AbortKeepsPrefix ==
    [][ /\ pc # "failed"
        /\ LET prefix == Replay(decoded', StartState)
           IN /\ context' = prefix.context
              /\ pc' # "done" => sink' = prefix.sink
              /\ pc' = "done" =>
                    sink' = [prefix.sink EXCEPT !.fallbackProductionConfig =
                                ApplyReadFallbackConfig(prefix.context, @)] ]_vars

\* a failed read after one applied record: the applied record's effect stays
C2_Witness ==
    /\ pc = "failed" /\ ~last.ok
    /\ Len(decoded) = 1 /\ decoded[1].blockId = "dbiSendKeyOld"
    /\ decoded[1].p.v = 1 /\ sink.sendSubmitWay = "CtrlEnter"
    /\ last.blockId = "dbiSendKeyOld" /\ last.p.v = 2 /\ last.avail = 1

\* C3: for a blockId that the switch does not handle ReadSetting returns
\* false without reading from the stream and without changing the context
\* or the sink, the read ends there and no step follows; a deprecated but
\* recognized tag is not unknown: its record, when the stream holds it
\* whole, is read and ReadSetting returns true.
C3_UnknownTag ==
    [][ /\ (last.blockId \in KnownTags \/ last = NoCall)
        /\ (last' # NoCall /\ last'.blockId \notin KnownTags) =>
              /\ ~last'.ok /\ last'.nread = 0 /\ pc' = "failed"
              /\ context' = context /\ sink' = sink /\ decoded' = decoded
        /\ (last'.blockId \in DeprecatedTags /\ last'.avail >= last'.nread) =>
              /\ last'.ok /\ last'.nread > 0 /\ pc' # "failed" ]_vars

\* an unknown tag met after an applied record, its payload still in the stream
C3_Witness ==
    /\ last.blockId \in UnknownTags /\ last.avail = 1
    /\ ~last.ok /\ last.nread = 0 /\ pc = "failed"
    /\ Len(decoded) = 1 /\ decoded[1].blockId \in DeprecatedTags

\* the blob of the last dbiFallbackProductionConfig record among recs
RECURSIVE LastBlob(_)
LastBlob(recs) ==
    IF recs = <<>> THEN <<>>
    ELSE IF recs[Len(recs)].blockId = "dbiFallbackProductionConfig"
        THEN recs[Len(recs)].p.config
        ELSE LastBlob(SubSeq(recs, 1, Len(recs) - 1))

HasBlobRecord(recs) ==
    \E i \in DOMAIN recs : recs[i].blockId = "dbiFallbackProductionConfig"

\* C4 as stated: for every stream that holds a dbiFallbackProductionConfig
\* record, the fallback configuration is built from the blob alone.
C4_BlobRecordPrecedence ==
    (pc = "done" /\ HasBlobRecord(decoded)) =>
        sink.fallbackProductionConfig =
            ConstructFallbackProductionConfig(LastBlob(decoded))

\* C4 amended: for every stream whose last dbiFallbackProductionConfig
\* record holds a non-empty blob, the fallback configuration is built from
\* that blob alone, whatever the legacy fields of the context are.
C4_NonEmptyBlobPrecedence ==
    (pc = "done" /\ HasBlobRecord(decoded) /\ LastBlob(decoded) # <<>>) =>
        sink.fallbackProductionConfig =
            ConstructFallbackProductionConfig(LastBlob(decoded))

\* a stream with a legacy limit and a non-empty blob, read to its end
C4_Witness ==
    /\ pc = "done" /\ Len(decoded) = 2
    /\ decoded[1].blockId = "dbiFallbackProductionConfig" /\ decoded[1].p.config = BlobA
    /\ decoded[2].blockId = "dbiChatSizeMaxOld" /\ decoded[2].p.v = 50
    /\ context.fallbackConfigLegacyChatSizeMax = 50
    /\ sink.fallbackProductionConfig.chatSizeMax = BlobA[1]

\* C5: with no fallback blob in the context, ApplyReadFallbackConfig merges
\* the legacy DC options into the configuration, sets each scalar legacy
\* limit if and only if its context value is > 0 and the TXT-domain string
\* if and only if it is non-empty; any other field keeps its value.
C5_FieldMerge ==
    [][ (pc' = "done" /\ context.fallbackConfig = <<>>) =>
            LET old == sink.fallbackProductionConfig
                new == sink'.fallbackProductionConfig
                Merged(legacy, was, is) == is = IF legacy > 0 THEN legacy ELSE was
            IN /\ new.dcOptions = old.dcOptions \cup context.fallbackConfigLegacyDcOptions
               /\ Merged(context.fallbackConfigLegacyChatSizeMax,
                         old.chatSizeMax, new.chatSizeMax)
               /\ Merged(context.fallbackConfigLegacySavedGifsLimit,
                         old.savedGifsLimit, new.savedGifsLimit)
               /\ Merged(context.fallbackConfigLegacyStickersRecentLimit,
                         old.stickersRecentLimit, new.stickersRecentLimit)
               /\ Merged(context.fallbackConfigLegacyStickersFavedLimit,
                         old.stickersFavedLimit, new.stickersFavedLimit)
               /\ Merged(context.fallbackConfigLegacyMegagroupSizeMax,
                         old.megagroupSizeMax, new.megagroupSizeMax)
               /\ new.txtDomainString =
                     IF context.fallbackConfigLegacyTxtDomainString # ""
                         THEN context.fallbackConfigLegacyTxtDomainString
                         ELSE old.txtDomainString ]_vars

\* a stream with a decoded zero limit and a positive limit, read to its end
C5_Witness ==
    /\ pc = "done" /\ context.fallbackConfig = <<>> /\ Len(decoded) = 2
    /\ decoded[1].blockId = "dbiChatSizeMaxOld" /\ decoded[1].p.v = 0
    /\ decoded[2].blockId = "dbiSavedGifsLimitOld" /\ decoded[2].p.v = 50
    /\ sink.fallbackProductionConfig.chatSizeMax = DefaultConfig.chatSizeMax
    /\ sink.fallbackProductionConfig.savedGifsLimit = 50

\* the loop over the sub-records of a proxy list as the claim C6 describes
\* it: an empty proxy is left out and, when fewer proxies were collected
\* than the magnitude of the index, moves the index one step toward zero
RECURSIVE TowardZeroLoop(_, _, _, _)
TowardZeroLoop(entries, i, list, index) ==
    IF i > Len(entries) THEN [list |-> list, index |-> index]
    ELSE LET proxy == ReadProxy(entries[i])
         IN IF ProxyValid(proxy)
                THEN TowardZeroLoop(entries, i + 1, Append(list, proxy), index)
            ELSE IF Len(list) < Abs(index)
                THEN TowardZeroLoop(entries, i + 1, list,
                                    IF index > 0 THEN index - 1 ELSE index + 1)
            ELSE TowardZeroLoop(entries, i + 1, list, index)

\* C6: decoding a proxy list leaves every empty proxy out of the list and,
\* for each one met while fewer proxies were collected than the magnitude
\* of the selected index, moves the index one step toward zero; the proxy
\* at the corrected index is the selected one (count 3, second entry empty,
\* index 3: a list of two, index 2, the third proxy selected).
C6_IndexCorrection ==
    ( /\ last.blockId = "dbiConnectionType" /\ last.ok
      /\ last.p.connectionType \in {"dbictProxiesListOld", "dbictProxiesList"} ) =>
        LET p == last.p
            start == ProxyListStart(p.connectionType, p.count, p.index, p.calls)
            claimed == TowardZeroLoop(p.entries, 1, <<>>, start.index)
            code == ProxyListLoop(p.entries, 1, <<>>, start.index)
            at == IF p.connectionType = "dbictProxiesListOld"
                      THEN Abs(claimed.index) ELSE claimed.index
        IN /\ sink.proxiesList = claimed.list
           /\ code.index = claimed.index
           /\ sink.selectedProxy =
                 IF at > 0 /\ at <= Len(claimed.list)
                     THEN claimed.list[at] ELSE ProxyNone

\* the time values that mean no time limit: 0, the 32-bit maximum, and the
\* 64-bit maximum 9223372036854775807 as the 32-bit time field holds it (-1)
NoLimitTimes == {0, 2147483647, -1}

\* the time limit the context holds for an accepted stored time value
StoredTimeLimit(time) == IF time \in NoLimitTimes THEN 0 ELSE time

\* a stored time value that is negative and none of the no-limit values
BadTime(time) == time < 0 /\ time \notin NoLimitTimes

\* C7: in both cache-limit records a stored time of 0, 2147483647 or
\* 9223372036854775807 (-1 in the 32-bit field) is accepted and stored as 0;
\* every other negative time makes ReadSetting return false; every other
\* non-negative time is stored unchanged (accepted: in a record the stream
\* holds whole and whose sizes and other time value pass).
C7_TimeSentinels ==
    /\ last.blockId = "dbiCacheSettingsOld" =>
          /\ BadTime(last.p.time) => ~last.ok
          /\ ( /\ ~BadTime(last.p.time)
               /\ last.avail = 2 /\ last.p.size > MaxDataSize ) =>
                /\ last.ok
                /\ context.cacheTotalTimeLimit = StoredTimeLimit(last.p.time)
                /\ context.cacheBigFileTotalTimeLimit = StoredTimeLimit(last.p.time)
    /\ last.blockId = "dbiCacheSettings" =>
          /\ (BadTime(last.p.time) \/ BadTime(last.p.timeBig)) => ~last.ok
          /\ ( /\ ~BadTime(last.p.time) /\ ~BadTime(last.p.timeBig)
               /\ last.avail = 4
               /\ last.p.size > MaxDataSize /\ last.p.sizeBig > MaxDataSize ) =>
                /\ last.ok
                /\ context.cacheTotalTimeLimit = StoredTimeLimit(last.p.time)
                /\ context.cacheBigFileTotalTimeLimit = StoredTimeLimit(last.p.timeBig)

\* a record with the truncated 64-bit maximum and the 32-bit maximum, accepted
C7_Witness ==
    /\ last.blockId = "dbiCacheSettings" /\ last.ok
    /\ last.p.time = -1 /\ last.p.timeBig = 2147483647
    /\ context.cacheTotalTimeLimit = 0 /\ context.cacheBigFileTotalTimeLimit = 0
    /\ context.cacheTotalSizeLimit = last.p.size

\* C8: a cache-limits record with a size <= Database::Settings().maxDataSize
\* is rejected; so after any sequence of records every cache size limit of
\* the context is either as constructed (never decoded) or > that threshold,
\* and every cache time limit is >= 0; the old layout writes its one size
\* and its one time to both the total and the big-file limits.
C8_CacheLimitsValid ==
    /\ last.blockId \in {"dbiCacheSettingsOld", "dbiCacheSettings"} =>
          (last.p.size <= MaxDataSize => ~last.ok)
    /\ last.blockId = "dbiCacheSettings" =>
          (last.p.sizeBig <= MaxDataSize => ~last.ok)
    /\ \/ /\ context.cacheTotalSizeLimit = InitContext(FALSE).cacheTotalSizeLimit
          /\ context.cacheBigFileTotalSizeLimit =
                InitContext(FALSE).cacheBigFileTotalSizeLimit
       \/ /\ context.cacheTotalSizeLimit > MaxDataSize
          /\ context.cacheBigFileTotalSizeLimit > MaxDataSize
    /\ context.cacheTotalTimeLimit >= 0
    /\ context.cacheBigFileTotalTimeLimit >= 0
    /\ (last.blockId = "dbiCacheSettingsOld" /\ last.ok) =>
          /\ context.cacheTotalSizeLimit = last.p.size
          /\ context.cacheBigFileTotalSizeLimit = last.p.size
          /\ context.cacheBigFileTotalTimeLimit = context.cacheTotalTimeLimit

\* limits decoded by an earlier record stay when a record with a size equal
\* to the threshold is rejected
C8_Witness ==
    /\ last.blockId = "dbiCacheSettings" /\ ~last.ok /\ last.avail = 4
    /\ last.p.size > MaxDataSize /\ last.p.sizeBig = MaxDataSize
    /\ ~BadTime(last.p.time) /\ ~BadTime(last.p.timeBig)
    /\ context.cacheTotalSizeLimit > MaxDataSize
    /\ context.cacheBigFileTotalSizeLimit > MaxDataSize
    /\ context.cacheTotalSizeLimit # context.cacheBigFileTotalSizeLimit

\* C9: dbiSendKeyOld with a stored value that is neither Enter nor CtrlEnter
\* makes ReadSetting return false and leaves the send-submit setting as it
\* was; with one of the two legal values (in a record the stream holds) it
\* returns true and the setting equals the stored value.
C9_SendKey ==
    [][ (last'.blockId = "dbiSendKeyOld" /\ last'.avail >= 1) =>
            LET way == InputSubmitSettingsFromInt(last'.p.v)
            IN IF way \in {"Enter", "CtrlEnter"}
                   THEN last'.ok /\ sink'.sendSubmitWay = way
                   ELSE ~last'.ok /\ sink'.sendSubmitWay = sink.sendSubmitWay ]_vars

\* an illegal stored value rejected after CtrlEnter was stored
C9_Witness ==
    /\ last.blockId = "dbiSendKeyOld" /\ last.avail = 1 /\ last.p.v = 2
    /\ ~last.ok /\ pc = "failed"
    /\ sink.sendSubmitWay = "CtrlEnter"

\* the tile value C10 states for a stored value v
ClaimedTile(v) ==
    IF version < 8005 /\ ~context.legacyHasCustomDayBackground
        THEN 0
        ELSE IF v = 1 THEN 1 ELSE 0

\* C10: decoding dbiTileBackgroundOld yields tile = false when the version
\* is < 8005 and no custom day background exists, and otherwise tile = (the
\* stored value is 1); the value goes to one of the two tile flags, the
\* other keeps its value, and the tile flags are marked as read.
C10_LegacyTile ==
    [][ (last'.blockId = "dbiTileBackgroundOld" /\ last'.ok /\ pc' = "reading") =>
            /\ context'.tileRead
            /\ \/ /\ context'.tileDay = ClaimedTile(last'.p.v)
                  /\ context'.tileNight = context.tileNight
               \/ /\ context'.tileNight = ClaimedTile(last'.p.v)
                  /\ context'.tileDay = context.tileDay ]_vars

\* an old version with a custom day background, where the stored 1 counts
C10_Witness ==
    /\ last.blockId = "dbiTileBackgroundOld" /\ last.ok /\ last.p.v = 1
    /\ version < 8005 /\ context.legacyHasCustomDayBackground
    /\ context.tileRead /\ context.tileDay = 1 /\ context.tileNight = 1

-----------------------------------------------------------------------------
(* C11: the legacy data-center options accumulate *)

\* the options a decoded record adds to the legacy option set
DcContribution(call) ==
    CASE call.blockId = "dbiDcOptionOldOld" ->
            {[id |-> call.p.dcId, flags |-> 0, ip |-> call.p.ip, port |-> call.p.port]}
      [] call.blockId = "dbiDcOptionOld" ->
            {[id |-> call.p.dcIdWithShift, flags |-> call.p.flags,
              ip |-> call.p.ip, port |-> call.p.port]}
      [] call.blockId = "dbiDcOptionsOld" -> call.p.serialized
      [] OTHER -> {}

\* C11: every record that decodes leaves in
\* context.fallbackConfigLegacyDcOptions all the options the set held before
\* it and adds the options it carries, whichever of the three encodings it
\* uses; so what an earlier record contributed is never overwritten or cleared.
C11_DcOptionsAccumulate ==
    [][(pc = "reading" /\ pc' = "reading") =>
          /\ context.fallbackConfigLegacyDcOptions
                 \subseteq context'.fallbackConfigLegacyDcOptions
          /\ DcContribution(last') \subseteq context'.fallbackConfigLegacyDcOptions]_vars

\* a serialized option list was decoded after single-option records of both
\* older encodings whose options it does not hold, and they are still there
C11_Witness ==
    /\ pc = "reading"
    /\ last.blockId = "dbiDcOptionsOld" /\ last.ok
    /\ last.p.serialized = {OptionA}
    /\ {OptionC, OptionD} \subseteq context.fallbackConfigLegacyDcOptions

-----------------------------------------------------------------------------
(* C12: a command-line scale is kept by dbiScalePercent *)

\* C12: a whole dbiScalePercent record always decodes (returns true); it
\* writes the stored value as the scale when cConfigScale() is kScaleAuto,
\* that is when no command-line scale is set, and leaves the scale unchanged
\* otherwise, after any sequence of scale records.
C12_ScaleOverride ==
    [][(pc = "reading" /\ pc' # "done" /\ last'.blockId = "dbiScalePercent"
            /\ last'.avail >= 1) =>
          /\ last'.ok
          /\ sink'.configScale = IF sink.configScale = kScaleAuto
                                     THEN last'.p.v
                                     ELSE sink.configScale]_vars

\* a stored percentage was decoded while another scale was set, and the
\* scale set is still in force
C12_Witness ==
    /\ last.blockId = "dbiScalePercent" /\ last.ok
    /\ last.p.v = 200
    /\ sink.configScale = 150

-----------------------------------------------------------------------------
(* C13: the legacy emoji keys *)

\* the ten legacy keys and their composite keys, as pairs of the second and
\* the fourth code unit: 0xD83C a -> 0xD83C a 0xD83C b
LegacyKeyTable ==
    { <<56815, 56821>>, <<56816, 56823>>, <<56809, 56810>>, <<56808, 56819>>,
      <<56826, 56824>>, <<56811, 56823>>, <<56810, 56824>>, <<56814, 56825>>,
      <<56823, 56826>>, <<56812, 56807>> }

\* the key after the remap: a legacy key becomes its composite key, any other
\* key stays
RemappedKey(key) ==
    IF \E e \in LegacyKeyTable : key = <<0, 0, 55356, e[1]>>
        THEN LET e == CHOOSE e \in LegacyKeyTable : key = <<0, 0, 55356, e[1]>>
             IN <<55356, e[1], 55356, e[2]>>
        ELSE key

SameKey(key) == key

\* the stored key of an item as a 64-bit key
StoredKey(blockId, first) ==
    IF blockId = "dbiRecentEmojiOldOld" THEN ToUint64(first) ELSE first

\* the output list for the stored list v: the items in the stored order with
\* their counts, under the normalized id of Key(stored key), without the
\* items whose id is empty
NormalizedList(blockId, v, Key(_)) ==
    SelectSeq([i \in 1..Len(v) |->
                  [first |-> IdFromOldKey(Key(StoredKey(blockId, v[i].first))),
                   second |-> v[i].second]],
              LAMBDA e : e.first # <<>>)

RecentEmojiTags == {"dbiRecentEmojiOldOld", "dbiRecentEmojiOld"}

\* C13 as stated: after either legacy recent-emoji record is decoded, the
\* list holds the stored items in order with their counts, each under the
\* normalized id of its key with the ten legacy keys replaced by their
\* composite keys, and without the items whose id is empty.
C13_EmojiRemap ==
    (last.blockId \in RecentEmojiTags /\ last.ok /\ last.p.v # <<>>) =>
        sink.recentEmojiPreload = NormalizedList(last.blockId, last.p.v, RemappedKey)

\* C13 amended: the ten legacy keys are replaced by their composite keys
\* when dbiRecentEmojiOldOld is decoded; when dbiRecentEmojiOld is decoded
\* every key, the ten included, is normalized as stored.  In both the items
\* whose id is empty are dropped and the others keep their order and counts;
\* a record with an empty list leaves the list as it was.
C13_EmojiRemapOldOld ==
    [][(pc = "reading" /\ pc' = "reading" /\ last'.blockId \in RecentEmojiTags) =>
          sink'.recentEmojiPreload =
              IF last'.p.v = <<>> THEN sink.recentEmojiPreload
              ELSE IF last'.blockId = "dbiRecentEmojiOldOld"
                  THEN NormalizedList(last'.blockId, last'.p.v, RemappedKey)
                  ELSE NormalizedList(last'.blockId, last'.p.v, SameKey)]_vars

\* a dbiRecentEmojiOldOld record of an item with an empty id and a legacy key
\* was decoded: the first is dropped, the second is under its composite key
C13_Witness ==
    /\ last.blockId = "dbiRecentEmojiOldOld" /\ last.ok
    /\ Len(last.p.v) = 2
    /\ last.p.v[1].first = <<65535, 65535>>
    /\ last.p.v[2] = [first |-> <<55356, 56815>>, second |-> 2]
    /\ sink.recentEmojiPreload =
           <<[first |-> <<55356, 56815, 55356, 56821>>, second |-> 2]>>

-----------------------------------------------------------------------------
(* C14: the proxy state stays consistent *)

InProxiesList(proxy) ==
    \E i \in 1..Len(sink.proxiesList) : sink.proxiesList[i] = proxy

\* C14: after any sequence of proxy records, decoded or failed, the proxies
\* list holds no empty proxy, the selected proxy is empty or an element of
\* the list, and proxy mode Enabled implies a selected proxy; after a
\* dbictProxiesList record is decoded, a stored settings value outside the
\* enum, and Enabled with no selected proxy, have both resolved to System.
C14_ProxyConsistency ==
    /\ \A i \in 1..Len(sink.proxiesList) :
           ProxyValid(sink.proxiesList[i]) /\ sink.proxiesList[i] # ProxyNone
    /\ sink.selectedProxy = ProxyNone \/ InProxiesList(sink.selectedProxy)
    /\ sink.proxySettings = "Enabled" => sink.selectedProxy # ProxyNone
    /\ sink.proxySettings \in {"System", "Enabled", "Disabled"}
    /\ (/\ last.blockId = "dbiConnectionType" /\ last.ok
        /\ last.p.connectionType = "dbictProxiesList"
        /\ \/ last.p.settings \notin {0, 1, 2}
           \/ last.p.settings = 1 /\ sink.selectedProxy = ProxyNone)
       => sink.proxySettings = "System"

\* a dbictProxiesList record stored as Enabled was decoded into a list of one
\* proxy that its selected index does not reach: no proxy is selected and
\* the mode is System
C14_Witness ==
    /\ last.blockId = "dbiConnectionType" /\ last.ok
    /\ last.p.connectionType = "dbictProxiesList"
    /\ last.p.settings = 1
    /\ Len(sink.proxiesList) = 1
    /\ sink.selectedProxy = ProxyNone
    /\ sink.proxySettings = "System"

-----------------------------------------------------------------------------
(* C15: the variant the legacy tile flag goes to *)

\* C15: decoding dbiTileBackgroundOld stores the tile value into
\* context.tileNight when night mode is on and into context.tileDay when it
\* is off, and leaves the flag of the other variant unchanged; the night
\* mode is the one in force when the record is read, as set by an earlier
\* dbiThemeKey record of the stream.
C15_TileOfCurrentMode ==
    [][ (last'.blockId = "dbiTileBackgroundOld" /\ last'.ok /\ pc' = "reading") =>
            IF sink.nightMode
                THEN /\ context'.tileNight = ClaimedTile(last'.p.v)
                     /\ context'.tileDay = context.tileDay
                ELSE /\ context'.tileDay = ClaimedTile(last'.p.v)
                     /\ context'.tileNight = context.tileNight ]_vars

====
